---- MODULE Spec2Model ----
(***************************************************************************)
(* A model of background_task/models.py: the background_task table, the   *)
(* TaskManager queries (unlocked, find_available), Task.lock,              *)
(* Task.reschedule, Task.create_completed_task and Task.create_repetition, *)
(* run by several worker processes against one shared store and one clock. *)
(* Every database statement of a method is one atomic step; the steps of   *)
(* different workers interleave freely, and so do the clock's advances.    *)
(***************************************************************************)
EXTENDS Integers, Sequences, FiniteSets, TLC

\* ------------------------------------------------------------------ bounds

\* the clock runs over 0..MaxTime
MaxTime == 3
\* primary keys the table hands out: 1..MaxTasks
MaxTasks == 2
\* tasks callers schedule (the other pks go to repetitions)
MaxScheduled == 1
\* how far past MAX_ATTEMPTS a worker still increments attempts
MaxOverrun == 1
\* rows the CompletedTask table holds
MaxCompleted == 2
\* rows of the table in the query specification
QueryRows == 3
\* the highest stored attempts value the retry specification starts from
RetryMaxStart == 4
\* the clock of the retry-to-the-end specification runs freely up to here, and
\* beyond only while a live task is waiting for its run_at
LiveMaxTime == 3

\* ------------------------------------------------------- program constants

\* Task.NEVER and Task.HOURLY, the repeat encodings used here
NEVER == 0
HOURLY == 3600
\* settings.MAX_RUN_TIME and settings.MAX_ATTEMPTS as configured for the
\* worker specification, and MAX_ATTEMPTS as configured for the retry one
ConfMaxRunTime == 2
ConfMaxAttempts == 2
RetryMaxAttempts == 5
\* a MAX_RUN_TIME no execution outlasts (the package default, one hour)
DefaultMaxRunTime == 3600

\* SQL NULL / Python None, for text columns and for datetime columns
Null == "NULL"
NoTime == -1

Workers == {"w1", "w2", "w3"}
LockWorkers == {"w1", "w2"}
TaskIds == 1..MaxTasks

VARIABLES
    now,        \* the clock timezone.now() reads
    settings,   \* django.conf.settings: MAX_RUN_TIME, MAX_ATTEMPTS
    tasks,      \* the background_task table: pk -> row, or NoRow
    nextPk,     \* the table's auto-increment counter
    completed,  \* the CompletedTask table, in insertion order
    failedLog,  \* task_failed.send calls: <<task_id, completed_task>>
    reschedLog, \* task_rescheduled.send calls: the task's pk, in order
    pc,         \* each worker's position
    self,       \* each worker's in-memory Task instance
    lnow,       \* each worker's local `now` inside lock()
    sched,      \* history: pk -> how the task was created, whether it was archived
    result      \* the value the last query returned

vars == <<now, settings, tasks, nextPk, completed, failedLog, reschedLog,
          pc, self, lnow, sched, result>>

NoRow == [pk |-> 0]
NoResult == [op |-> "none"]

\* ------------------------------------------------------------ TaskManager

\* a variant of unlocked in which a lease is over at expires_at itself
UnlockedStrictLE(row, t) ==
    \/ row.locked_by = Null
    \/ row.locked_at # NoTime /\ row.locked_at <= t - settings.MAX_RUN_TIME

\* a variant of unlocked in which a lease never runs out
UnlockedOnlyNull(row, t) == row.locked_by = Null

\* TaskManager.unlocked, as a predicate on one row: the Q object of line 100.
\* A NULL locked_at never satisfies locked_at < expires_at.
Unlocked(row, t) ==
    LET expires_at == t - settings.MAX_RUN_TIME
    IN  \/ row.locked_by = Null
        \/ row.locked_at # NoTime /\ row.locked_at < expires_at

\* the pks of the live rows
Live == {p \in DOMAIN tasks : tasks[p] # NoRow}

\* TaskManager.unlocked(now): the pks of the queryset
UnlockedSet(t) == {p \in Live : Unlocked(tasks[p], t)}

\* `if queue:` of find_available: None and '' both mean no restriction
QueueGiven(queue) == queue # Null /\ queue # ""

\* a variant of find_available's filters without the one on run_at
ReadyAnyRunAt(queue, t) ==
    {p \in UnlockedSet(t) :
        /\ QueueGiven(queue) => tasks[p].queue = queue
        /\ tasks[p].failed_at = NoTime}

\* find_available's filters: unlocked(now), queue, run_at <= now, failed_at NULL
Ready(queue, t) ==
    {p \in UnlockedSet(t) :
        /\ QueueGiven(queue) => tasks[p].queue = queue
        /\ tasks[p].run_at <= t
        /\ tasks[p].failed_at = NoTime}

\* a variant of the sort key that orders priority ascending
SortKeyAscending(row) == <<row.priority, row.run_at>>

\* order_by('-priority', 'run_at'): the sort key of a row, compared
\* lexicographically
SortKey(row) == <<0 - row.priority, row.run_at>>

KeyLE(k1, k2) == k1[1] < k2[1] \/ (k1[1] = k2[1] /\ k1[2] <= k2[2])

\* every order the database may return the set S in: rows with equal keys
\* come in any order
OrderBy(S) ==
    {s \in [1..Cardinality(S) -> S] :
        /\ \A i, j \in DOMAIN s : i # j => s[i] # s[j]
        /\ \A i \in DOMAIN s : i + 1 \in DOMAIN s =>
              KeyLE(SortKey(tasks[s[i]]), SortKey(tasks[s[i + 1]]))}

\* TaskManager.find_available(queue) at clock reading t
FindAvailable(queue, t) == OrderBy(Ready(queue, t))

\* TaskManager.new_task: the hash is a digest of the name and the canonical
\* parameters, collision-free here; `repeat or Task.NEVER` turns a repeat of
\* None or 0 (both 0 here) into NEVER
TaskHash(name, params) == <<name, params>>

NewTask(name, params, run_at, priority, queue, repeat, repeat_until) ==
    [task_name |-> name, task_params |-> params,
     task_hash |-> TaskHash(name, params),
     priority |-> priority, run_at |-> run_at, queue |-> queue,
     repeat |-> IF repeat = 0 THEN NEVER ELSE repeat,
     repeat_until |-> repeat_until,
     attempts |-> 0, failed_at |-> NoTime, last_error |-> "",
     locked_by |-> Null, locked_at |-> NoTime]

\* an optional argument of new_task / get_task / drop_task: None, or a value
None == [none |-> TRUE]
Some(v) == [none |-> FALSE, items |-> v]

\* `args or ()`, `kwargs or {}`: None and the empty value both give the empty
\* one
OrEmpty(x) == IF x.none THEN <<>> ELSE x.items

\* the order of the keyword names, as json.dumps(sort_keys=True) sorts them
KeyRank == [a |-> 1, b |-> 2]

\* a variant of the key sort that keeps the caller's order
KeepKeys(kw) == kw

\* sort_keys=True: the items of a dict (a sequence of <<key, value>> with
\* distinct keys, in insertion order) in the order of their keys
SortKeys(kw) ==
    CHOOSE s \in [DOMAIN kw -> {kw[i] : i \in DOMAIN kw}] :
        /\ \A i \in DOMAIN kw : \E j \in DOMAIN s : s[j] = kw[i]
        /\ \A i, j \in DOMAIN s :
              i < j => KeyRank[s[i][1]] < KeyRank[s[j][1]]

\* the text json.dumps writes for (args, kwargs) with args empty and the items
\* in the given order
Render(items) ==
    CASE items = <<>> -> "[[], {}]"
      [] items = <<<<"a", 1>>>> -> "[[], {\"a\": 1}]"
      [] items = <<<<"b", 1>>>> -> "[[], {\"b\": 1}]"
      [] items = <<<<"a", 1>>, <<"b", 1>>>> -> "[[], {\"a\": 1, \"b\": 1}]"
      [] items = <<<<"b", 1>>, <<"a", 1>>>> -> "[[], {\"b\": 1, \"a\": 1}]"

\* new_task / get_task, lines 106-111 and 127-129:
\* json.dumps((args or (), kwargs or {}), sort_keys=True), for empty args
JsonDumps(args, kwargs) == Render(SortKeys(OrEmpty(kwargs)))

\* TaskManager.get_task: the live rows with the hash of (name, args, kwargs)
GetTask(name, args, kwargs) ==
    {p \in Live :
        tasks[p].task_hash = TaskHash(name, JsonDumps(args, kwargs))}

\* ------------------------------------------------------------------- Task

\* an in-memory instance: the row plus its pk
Instance(p) == [pk |-> p, row |-> tasks[p]]
NoInstance == [pk |-> 0]

\* Task.save: forces '' to NULL in locked_by, then Model.save, which updates
\* the row with this pk and inserts it when no such row exists
Save(inst) ==
    [tasks EXCEPT ![inst.pk] =
        [inst.row EXCEPT !.locked_by = IF @ = "" THEN Null ELSE @]]

\* Model.delete: removes the row with this pk, if there is one
Delete(inst) == [tasks EXCEPT ![inst.pk] = NoRow]

\* Task.has_reached_max_attempts
HasReachedAfterMaxAttempts(row) == row.attempts > settings.MAX_ATTEMPTS

\* Task.has_reached_max_attempts, lines 219-221
HasReachedMaxAttempts(row) == row.attempts >= settings.MAX_ATTEMPTS

\* Task.is_repeating_task
IsRepeatingTask(row) == row.repeat > NEVER

RECURSIVE Pow(_, _)
Pow(b, e) == IF e = 0 THEN 1 ELSE b * Pow(b, e - 1)

\* a variant of the backoff with the third power
BackoffCubed(attempts) == Pow(attempts, 3) + 5

\* the backoff of reschedule, in seconds: (attempts ** 4) + 5
Backoff(attempts) == Pow(attempts, 4) + 5

\* Task.create_completed_task: the CompletedTask row copied from the instance,
\* its run_at stamped with the clock
CreateCompletedTask(row, t) ==
    [task_name |-> row.task_name, task_params |-> row.task_params,
     task_hash |-> row.task_hash, priority |-> row.priority, run_at |-> t,
     queue |-> row.queue, attempts |-> row.attempts,
     failed_at |-> row.failed_at, last_error |-> row.last_error,
     locked_by |-> row.locked_by, locked_at |-> row.locked_at,
     repeat |-> row.repeat, repeat_until |-> row.repeat_until]

\* Task.params followed by new_task's json.dumps(sort_keys=True): the stored
\* text is already canonical, so decoding and encoding it gives it back
Params(row) == row.task_params

\* ---------------------------------------------------------------- actions

\* the clock advances
Tick ==
    /\ now < MaxTime
    /\ \E t \in (now + 1)..MaxTime : now' = t
    /\ UNCHANGED <<settings, tasks, nextPk, completed, failedLog, reschedLog,
                   pc, self, lnow, sched, result>>

\* what callers schedule: new_task(...).save()
ScheduleRepeats == {0, HOURLY}
ScheduleUntils == {NoTime, MaxTime}

\* a caller schedules a task: TaskManager.new_task with run_at defaulting to
\* now, then save(), which inserts the row under a fresh pk
Schedule ==
    /\ nextPk <= MaxScheduled
    /\ \E repeat \in ScheduleRepeats, repeat_until \in ScheduleUntils :
          LET row == NewTask("f", "[[], {}]", now, 0, Null, repeat, repeat_until)
          IN  /\ tasks' = Save([pk |-> nextPk, row |-> row])
              /\ sched' = [sched EXCEPT ![nextPk] =
                              [t0 |-> row.run_at, parent |-> 0, after |-> 0,
                               every |-> row.repeat, archived |-> FALSE]]
    /\ nextPk' = nextPk + 1
    /\ UNCHANGED <<now, settings, completed, failedLog, reschedLog, pc, self,
                   lnow, result>>

\* a worker asks find_available() for the runnable tasks and takes one of them
\* as the instance it will try to lock
Poll(w) ==
    /\ pc[w] = "idle"
    /\ \E s \in FindAvailable(Null, now) : \E i \in DOMAIN s :
          self' = [self EXCEPT ![w] = Instance(s[i])]
    /\ pc' = [pc EXCEPT ![w] = "polled"]
    /\ UNCHANGED <<now, settings, tasks, nextPk, completed, failedLog,
                   reschedLog, lnow, sched, result>>

\* Task.lock, line 203: now = timezone.now()
LockNow(w) ==
    /\ pc[w] = "polled"
    /\ lnow' = [lnow EXCEPT ![w] = now]
    /\ pc' = [pc EXCEPT ![w] = "lock_update"]
    /\ UNCHANGED <<now, settings, tasks, nextPk, completed, failedLog,
                   reschedLog, self, sched, result>>

\* Task.lock, lines 204-206 and 208: the conditional UPDATE ... WHERE pk = self.pk
\* AND (locked_by IS NULL OR locked_at < expires_at); no row updated: return None
LockUpdate(w) ==
    /\ pc[w] = "lock_update"
    /\ LET p == self[w].pk
           updated == p \in Live /\ Unlocked(tasks[p], lnow[w])
       IN  IF updated
           THEN /\ tasks' = [tasks EXCEPT ![p].locked_by = w,
                                          ![p].locked_at = lnow[w]]
                /\ pc' = [pc EXCEPT ![w] = "lock_get"]
                /\ UNCHANGED <<self, lnow>>
           ELSE /\ pc' = [pc EXCEPT ![w] = "idle"]
                /\ self' = [self EXCEPT ![w] = NoInstance]
                /\ lnow' = [lnow EXCEPT ![w] = NoTime]
                /\ UNCHANGED tasks
    /\ UNCHANGED <<now, settings, nextPk, completed, failedLog, reschedLog,
                   sched, result>>

\* Task.lock, line 207: return Task.objects.get(pk=self.pk); DoesNotExist when
\* the row has been deleted since the update
LockGet(w) ==
    /\ pc[w] = "lock_get"
    /\ LET p == self[w].pk
       IN  IF p \in Live
           THEN /\ self' = [self EXCEPT ![w] = Instance(p)]
                /\ pc' = [pc EXCEPT ![w] = "run"]
                /\ UNCHANGED lnow
           ELSE /\ self' = [self EXCEPT ![w] = NoInstance]
                /\ pc' = [pc EXCEPT ![w] = "idle"]
                /\ lnow' = [lnow EXCEPT ![w] = NoTime]
    /\ UNCHANGED <<now, settings, tasks, nextPk, completed, failedLog,
                   reschedLog, sched, result>>

\* Task.reschedule, lines 231-232: last_error is set, then increment_attempts:
\* self.attempts += 1; self.save()
IncrementAttempts(w) ==
    /\ pc[w] = "run"
    /\ self[w].row.attempts < settings.MAX_ATTEMPTS + MaxOverrun
    /\ LET inst == [self[w] EXCEPT !.row.last_error = "Traceback",
                                   !.row.attempts = @ + 1]
       IN  /\ self' = [self EXCEPT ![w] = inst]
           /\ tasks' = Save(inst)
    /\ pc' = [pc EXCEPT ![w] = "rescheduling"]
    /\ UNCHANGED <<now, settings, nextPk, completed, failedLog, reschedLog,
                   lnow, sched, result>>

\* a variant of the terminal path that saves the task once failed_at is set
MarkFailedSaved(w) ==
    /\ pc[w] = "rescheduling"
    /\ HasReachedMaxAttempts(self[w].row)
    /\ Len(completed) < MaxCompleted
    /\ LET inst == [self[w] EXCEPT !.row.failed_at = now]
       IN  /\ self' = [self EXCEPT ![w] = inst]
           /\ tasks' = Save(inst)
           /\ completed' = Append(completed, CreateCompletedTask(inst.row, now))
           /\ failedLog' = Append(failedLog, <<inst.pk, Len(completed) + 1>>)
    /\ pc' = [pc EXCEPT ![w] = "deleting"]
    /\ UNCHANGED <<now, settings, nextPk, reschedLog, lnow, sched, result>>

\* Task.reschedule, lines 233-237: failed_at is set, the CompletedTask is
\* created and saved, task_failed is sent
MarkFailed(w) ==
    /\ pc[w] = "rescheduling"
    /\ HasReachedMaxAttempts(self[w].row)
    /\ Len(completed) < MaxCompleted
    /\ LET inst == [self[w] EXCEPT !.row.failed_at = now]
       IN  /\ self' = [self EXCEPT ![w] = inst]
           /\ completed' = Append(completed, CreateCompletedTask(inst.row, now))
           /\ failedLog' = Append(failedLog, <<inst.pk, Len(completed) + 1>>)
    /\ pc' = [pc EXCEPT ![w] = "deleting"]
    /\ UNCHANGED <<now, settings, tasks, nextPk, reschedLog, lnow, sched, result>>

\* Task.reschedule, line 238: self.delete()
DeleteFailed(w) ==
    /\ pc[w] = "deleting"
    /\ tasks' = Delete(self[w])
    /\ sched' = [sched EXCEPT ![self[w].pk].archived = TRUE]
    /\ pc' = [pc EXCEPT ![w] = "idle"]
    /\ self' = [self EXCEPT ![w] = NoInstance]
    /\ lnow' = [lnow EXCEPT ![w] = NoTime]
    /\ UNCHANGED <<now, settings, nextPk, completed, failedLog, reschedLog,
                   result>>

\* Task.reschedule, lines 240-247: run_at = now + backoff, task_rescheduled is
\* sent, the lock fields are cleared, self.save()
RescheduleLater(w) ==
    /\ pc[w] = "rescheduling"
    /\ ~HasReachedMaxAttempts(self[w].row)
    /\ LET backoff == Backoff(self[w].row.attempts)
           inst == [self[w] EXCEPT !.row.run_at = now + backoff,
                                   !.row.locked_by = Null,
                                   !.row.locked_at = NoTime]
       IN  /\ reschedLog' = Append(reschedLog, inst.pk)
           /\ tasks' = Save(inst)
    /\ pc' = [pc EXCEPT ![w] = "idle"]
    /\ self' = [self EXCEPT ![w] = NoInstance]
    /\ lnow' = [lnow EXCEPT ![w] = NoTime]
    /\ UNCHANGED <<now, settings, nextPk, completed, failedLog, sched, result>>

\* Task.reschedule, lines 240-244 with a task_rescheduled receiver that raises:
\* Signal.send lets the exception out of reschedule(), after run_at was set on
\* the instance and before the lock fields are cleared and the row is saved
RescheduledHookFails(w) ==
    /\ pc[w] = "rescheduling"
    /\ ~HasReachedMaxAttempts(self[w].row)
    /\ LET backoff == Backoff(self[w].row.attempts)
           inst == [self[w] EXCEPT !.row.run_at = now + backoff]
       IN  /\ self' = [self EXCEPT ![w] = inst]
           /\ reschedLog' = Append(reschedLog, inst.pk)
    /\ pc' = [pc EXCEPT ![w] = "raised"]
    /\ UNCHANGED <<now, settings, tasks, nextPk, completed, failedLog, lnow,
                   sched, result>>

\* Task.reschedule, lines 233-237 with a task_failed receiver that raises: the
\* CompletedTask has been saved, the exception leaves reschedule() before
\* self.delete()
FailedHookFails(w) ==
    /\ pc[w] = "rescheduling"
    /\ HasReachedMaxAttempts(self[w].row)
    /\ Len(completed) < MaxCompleted
    /\ LET inst == [self[w] EXCEPT !.row.failed_at = now]
       IN  /\ self' = [self EXCEPT ![w] = inst]
           /\ completed' = Append(completed, CreateCompletedTask(inst.row, now))
           /\ failedLog' = Append(failedLog, <<inst.pk, Len(completed) + 1>>)
    /\ pc' = [pc EXCEPT ![w] = "raised"]
    /\ UNCHANGED <<now, settings, tasks, nextPk, reschedLog, lnow, sched, result>>

\* what callers pass to new_task / get_task / drop_task
DedupNames == {"f", "g"}
DedupArgs == {None, Some(<<>>)}
DedupKwargs ==
    {None, Some(<<>>), Some(<<<<"a", 1>>>>), Some(<<<<"b", 1>>>>),
     Some(<<<<"a", 1>>, <<"b", 1>>>>), Some(<<<<"b", 1>>, <<"a", 1>>>>)}

\* a dict as a mapping: the set of its items, whatever their order
AsMapping(kwargs) == {OrEmpty(kwargs)[i] : i \in DOMAIN OrEmpty(kwargs)}

\* a caller schedules name(*args, **kwargs): new_task(...).save(); the history
\* keeps the name and the keyword arguments as a mapping
ScheduleNamed ==
    /\ nextPk <= MaxTasks
    /\ \E name \in DedupNames, args \in DedupArgs, kwargs \in DedupKwargs :
          LET row == NewTask(name, JsonDumps(args, kwargs), now, 0, Null, 0,
                             NoTime)
          IN  /\ tasks' = Save([pk |-> nextPk, row |-> row])
              /\ sched' = [sched EXCEPT ![nextPk] =
                              [t0 |-> row.run_at, parent |-> 0, after |-> 0,
                               every |-> row.repeat, archived |-> FALSE,
                               name |-> name, kwargs |-> AsMapping(kwargs)]]
    /\ nextPk' = nextPk + 1
    /\ UNCHANGED <<now, settings, completed, failedLog, reschedLog, pc, self,
                   lnow, result>>

\* a caller evaluates get_task(name, args, kwargs)
QueryTask ==
    /\ \E name \in DedupNames, args \in DedupArgs, kwargs \in DedupKwargs :
          result' = [op |-> "get_task", name |-> name,
                     kwargs |-> AsMapping(kwargs),
                     rows |-> GetTask(name, args, kwargs)]
    /\ UNCHANGED <<now, settings, tasks, nextPk, completed, failedLog,
                   reschedLog, pc, self, lnow, sched>>

\* TaskManager.drop_task: get_task(...).delete(), one DELETE statement over
\* the matching rows; the result is what was deleted
DropTask ==
    /\ \E name \in DedupNames, args \in DedupArgs, kwargs \in DedupKwargs :
          LET gone == GetTask(name, args, kwargs)
          IN  /\ tasks' = [p \in DOMAIN tasks |->
                              IF p \in gone THEN NoRow ELSE tasks[p]]
              /\ result' = [op |-> "drop_task", name |-> name,
                            kwargs |-> AsMapping(kwargs), rows |-> gone]
    /\ UNCHANGED <<now, settings, nextPk, completed, failedLog, reschedLog,
                   pc, self, lnow, sched>>

\* a variant of the cutoff that tests the repetition's own run_at
ChainExhaustedByRunAt(row, t) == row.repeat_until <= row.run_at + row.repeat

\* create_repetition, line 281: self.repeat_until <= timezone.now()
ChainExhausted(row, t) == row.repeat_until <= t

\* a variant of the offset that starts from the current time
NewRunAtFromNow(row, t) == t + row.repeat

\* create_repetition, line 286: self.run_at + timedelta(seconds=self.repeat)
NewRunAt(row, t) == row.run_at + row.repeat

\* Task.create_repetition, called after the task ran successfully.  A None
\* repeat_until makes `self.repeat_until <= timezone.now()` true on Python 2
\* (the chain ends) and a TypeError on Python 3 (the call is abandoned).
CreateRepetition(w) ==
    /\ pc[w] = "run"
    /\ LET row == self[w].row
           new_run_at == NewRunAt(row, now)
           new_task == NewTask(row.task_name, Params(row), new_run_at,
                               row.priority, row.queue, row.repeat,
                               row.repeat_until)
       IN  IF ~IsRepeatingTask(row)
           THEN /\ pc' = [pc EXCEPT ![w] = "completing"]
                /\ UNCHANGED <<tasks, nextPk, sched, self, lnow>>
           ELSE IF row.repeat_until = NoTime
           THEN \/ /\ pc' = [pc EXCEPT ![w] = "completing"]
                   /\ UNCHANGED <<tasks, nextPk, sched, self, lnow>>
                \/ /\ pc' = [pc EXCEPT ![w] = "idle"]
                   /\ self' = [self EXCEPT ![w] = NoInstance]
                   /\ lnow' = [lnow EXCEPT ![w] = NoTime]
                   /\ UNCHANGED <<tasks, nextPk, sched>>
           ELSE IF ChainExhausted(row, now)
           THEN /\ pc' = [pc EXCEPT ![w] = "completing"]
                /\ UNCHANGED <<tasks, nextPk, sched, self, lnow>>
           ELSE /\ nextPk <= MaxTasks
                /\ tasks' = Save([pk |-> nextPk, row |-> new_task])
                /\ sched' = [sched EXCEPT ![nextPk] =
                                [t0 |-> new_run_at, parent |-> self[w].pk,
                                 after |-> row.attempts, every |-> row.repeat,
                                 archived |-> FALSE]]
                /\ nextPk' = nextPk + 1
                /\ pc' = [pc EXCEPT ![w] = "completing"]
                /\ UNCHANGED <<self, lnow>>
    /\ UNCHANGED <<now, settings, completed, failedLog, reschedLog, result>>

\* the success path of the executor: the task is archived as a CompletedTask
\* and removed from the live table
Complete(w) ==
    /\ pc[w] = "completing"
    /\ Len(completed) < MaxCompleted
    /\ completed' = Append(completed, CreateCompletedTask(self[w].row, now))
    /\ tasks' = Delete(self[w])
    /\ pc' = [pc EXCEPT ![w] = "idle"]
    /\ self' = [self EXCEPT ![w] = NoInstance]
    /\ lnow' = [lnow EXCEPT ![w] = NoTime]
    /\ UNCHANGED <<now, settings, nextPk, failedLog, reschedLog, sched, result>>

\* ---------------------------------------------------- the worker system

\* history of a pk: t0 the run_at it was created with, parent the pk it is a
\* repetition of (0: scheduled by a caller), after the attempts its parent had
\* then, every its repeat, archived whether reschedule archived and deleted it
NoSched == [t0 |-> NoTime, parent |-> 0, after |-> 0, every |-> 0,
            archived |-> FALSE]

Init ==
    /\ now = 0
    /\ settings = [MAX_RUN_TIME |-> ConfMaxRunTime,
                   MAX_ATTEMPTS |-> ConfMaxAttempts]
    /\ tasks = [p \in TaskIds |-> NoRow]
    /\ nextPk = 1
    /\ completed = <<>>
    /\ failedLog = <<>>
    /\ reschedLog = <<>>
    /\ pc = [w \in Workers |-> "idle"]
    /\ self = [w \in Workers |-> NoInstance]
    /\ lnow = [w \in Workers |-> NoTime]
    /\ sched = [p \in TaskIds |-> NoSched]
    /\ result = NoResult

Next ==
    \/ Tick
    \/ Schedule
    \/ \E w \in Workers : Poll(w)
    \/ \E w \in Workers : LockNow(w)
    \/ \E w \in Workers : LockUpdate(w)
    \/ \E w \in Workers : LockGet(w)
    \/ \E w \in Workers : IncrementAttempts(w)
    \/ \E w \in Workers : MarkFailed(w)
    \/ \E w \in Workers : DeleteFailed(w)
    \/ \E w \in Workers : RescheduleLater(w)
    \/ \E w \in Workers : CreateRepetition(w)
    \/ \E w \in Workers : Complete(w)

Spec == Init /\ [][Next]_vars

\* ------------------------------------------- two lock() calls on one task

\* a freshly scheduled task as the table holds it, with the given lock fields
LockedRow(by, at) ==
    [NewTask("f", "[[], {}]", 0, 0, Null, 0, NoTime)
        EXCEPT !.locked_by = by, !.locked_at = at]

\* The task is unlocked, or carries a lease of w3 that has expired; w1 and w2
\* each hold it as an instance and are about to call lock() on it.
InitLock ==
    /\ now \in 0..MaxTime
    /\ settings = [MAX_RUN_TIME |-> ConfMaxRunTime,
                   MAX_ATTEMPTS |-> ConfMaxAttempts]
    /\ \E row \in {LockedRow(Null, NoTime)} \cup
                  {LockedRow("w3", at) : at \in 0..MaxTime} :
          /\ Unlocked(row, now)
          /\ tasks = [p \in TaskIds |-> IF p = 1 THEN row ELSE NoRow]
          /\ self = [w \in Workers |->
                        IF w \in LockWorkers THEN [pk |-> 1, row |-> row]
                        ELSE NoInstance]
    /\ nextPk = 2
    /\ completed = <<>>
    /\ failedLog = <<>>
    /\ reschedLog = <<>>
    /\ pc = [w \in Workers |-> IF w \in LockWorkers THEN "polled" ELSE "off"]
    /\ lnow = [w \in Workers |-> NoTime]
    /\ sched = [p \in TaskIds |->
                  IF p = 1 THEN [NoSched EXCEPT !.t0 = 0] ELSE NoSched]
    /\ result = NoResult

NextLock ==
    \/ Tick
    \/ \E w \in Workers : LockNow(w)
    \/ \E w \in Workers : LockUpdate(w)
    \/ \E w \in Workers : LockGet(w)

SpecLock == InitLock /\ [][NextLock]_vars

\* ------------------------------------------------ one reschedule() call

\* a task that has failed `attempts` times and is locked by w1 since `at`
FailedRow(attempts, at) ==
    [LockedRow("w1", at)
        EXCEPT !.attempts = attempts,
               !.last_error = IF attempts = 0 THEN "" ELSE "Traceback"]

\* w1 holds the lock on a task with 0..RetryMaxStart earlier failures and its
\* execution has just failed; MAX_ATTEMPTS is RetryMaxAttempts.
InitRetry ==
    /\ now \in 0..MaxTime
    /\ settings = [MAX_RUN_TIME |-> ConfMaxRunTime,
                   MAX_ATTEMPTS |-> RetryMaxAttempts]
    /\ \E attempts \in 0..RetryMaxStart, at \in 0..MaxTime :
          /\ at <= now
          /\ tasks = [p \in TaskIds |->
                        IF p = 1 THEN FailedRow(attempts, at) ELSE NoRow]
          /\ self = [w \in Workers |->
                        IF w = "w1"
                        THEN [pk |-> 1, row |-> FailedRow(attempts, at)]
                        ELSE NoInstance]
          /\ lnow = [w \in Workers |-> IF w = "w1" THEN at ELSE NoTime]
    /\ nextPk = 2
    /\ completed = <<>>
    /\ failedLog = <<>>
    /\ reschedLog = <<>>
    /\ pc = [w \in Workers |-> IF w = "w1" THEN "run" ELSE "off"]
    /\ sched = [p \in TaskIds |->
                  IF p = 1 THEN [NoSched EXCEPT !.t0 = 0] ELSE NoSched]
    /\ result = NoResult

NextRetry ==
    \/ Tick
    \/ \E w \in Workers : IncrementAttempts(w)
    \/ \E w \in Workers : MarkFailed(w)
    \/ \E w \in Workers : DeleteFailed(w)
    \/ \E w \in Workers : RescheduleLater(w)

SpecRetry == InitRetry /\ [][NextRetry]_vars

\* ------------------------- one reschedule() call with failing receivers

NextHook ==
    \/ NextRetry
    \/ \E w \in Workers : RescheduledHookFails(w)
    \/ \E w \in Workers : FailedHookFails(w)

SpecHook == InitRetry /\ [][NextHook]_vars

\* ------------------------------------------ a lock left by a dead worker

\* w3 locked the task, due at run_at, at some time from run_at up to now and
\* died without rescheduling or deleting it; w1 and w2 keep polling and
\* locking; MAX_RUN_TIME is any lease length up to ConfMaxRunTime
InitCrash ==
    /\ now \in 0..MaxTime
    /\ settings \in [MAX_RUN_TIME : 1..ConfMaxRunTime,
                     MAX_ATTEMPTS : {ConfMaxAttempts}]
    /\ \E at \in 0..MaxTime, run_at \in 0..MaxTime :
          /\ run_at <= at /\ at <= now
          /\ tasks = [p \in TaskIds |->
                        IF p = 1
                        THEN [LockedRow("w3", at) EXCEPT !.run_at = run_at]
                        ELSE NoRow]
    /\ self = [w \in Workers |-> NoInstance]
    /\ lnow = [w \in Workers |-> NoTime]
    /\ nextPk = 2
    /\ completed = <<>>
    /\ failedLog = <<>>
    /\ reschedLog = <<>>
    /\ pc = [w \in Workers |-> IF w \in LockWorkers THEN "idle" ELSE "off"]
    /\ sched = [p \in TaskIds |->
                  IF p = 1 THEN [NoSched EXCEPT !.t0 = 0] ELSE NoSched]
    /\ result = NoResult

NextCrash ==
    \/ Tick
    \/ \E w \in Workers : Poll(w)
    \/ \E w \in Workers : LockNow(w)
    \/ \E w \in Workers : LockUpdate(w)
    \/ \E w \in Workers : LockGet(w)

SpecCrash == InitCrash /\ [][NextCrash]_vars

\* --------------------------------- scheduling, looking up and unscheduling

InitDedup ==
    /\ now = 0
    /\ settings = [MAX_RUN_TIME |-> ConfMaxRunTime,
                   MAX_ATTEMPTS |-> ConfMaxAttempts]
    /\ tasks = [p \in TaskIds |-> NoRow]
    /\ nextPk = 1
    /\ completed = <<>>
    /\ failedLog = <<>>
    /\ reschedLog = <<>>
    /\ pc = [w \in Workers |-> "off"]
    /\ self = [w \in Workers |-> NoInstance]
    /\ lnow = [w \in Workers |-> NoTime]
    /\ sched = [p \in TaskIds |-> NoSched]
    /\ result = NoResult

NextDedup ==
    \/ ScheduleNamed
    \/ QueryTask
    \/ DropTask

SpecDedup == InitDedup /\ [][NextDedup]_vars

\* ------------------------------ workers, failing receivers and drop_task

\* the worker system with two workers, receivers that may raise, and callers
\* that unschedule
InitDrop ==
    /\ now = 0
    /\ settings = [MAX_RUN_TIME |-> ConfMaxRunTime,
                   MAX_ATTEMPTS |-> ConfMaxAttempts]
    /\ tasks = [p \in TaskIds |-> NoRow]
    /\ nextPk = 1
    /\ completed = <<>>
    /\ failedLog = <<>>
    /\ reschedLog = <<>>
    /\ pc = [w \in Workers |-> IF w \in LockWorkers THEN "idle" ELSE "off"]
    /\ self = [w \in Workers |-> NoInstance]
    /\ lnow = [w \in Workers |-> NoTime]
    /\ sched = [p \in TaskIds |-> NoSched]
    /\ result = NoResult

NextDrop ==
    \/ Tick
    \/ Schedule
    \/ \E w \in Workers : Poll(w)
    \/ \E w \in Workers : LockNow(w)
    \/ \E w \in Workers : LockUpdate(w)
    \/ \E w \in Workers : LockGet(w)
    \/ \E w \in Workers : IncrementAttempts(w)
    \/ \E w \in Workers : MarkFailed(w)
    \/ \E w \in Workers : DeleteFailed(w)
    \/ \E w \in Workers : RescheduleLater(w)
    \/ \E w \in Workers : CreateRepetition(w)
    \/ \E w \in Workers : RescheduledHookFails(w)
    \/ \E w \in Workers : FailedHookFails(w)
    \/ DropTask

SpecDrop == InitDrop /\ [][NextDrop]_vars

\* ------------------------------ a task whose every execution fails

\* the clock advances by one; it is held at LiveMaxTime only when no live task
\* is still waiting for its run_at
Advance ==
    /\ now < LiveMaxTime \/ \E p \in Live : tasks[p].run_at > now
    /\ now' = now + 1
    /\ UNCHANGED <<settings, tasks, nextPk, completed, failedLog, reschedLog,
                   pc, self, lnow, sched, result>>

\* one step of worker w: polling find_available(), locking, or a step of the
\* reschedule() call that follows the failure of the execution
WorkerStep(w) ==
    \/ Poll(w)
    \/ LockNow(w)
    \/ LockUpdate(w)
    \/ LockGet(w)
    \/ IncrementAttempts(w)
    \/ MarkFailed(w)
    \/ DeleteFailed(w)
    \/ RescheduleLater(w)

\* one task, scheduled for 0 or 1, never run yet; w1 and w2 poll; MAX_ATTEMPTS
\* is 1..ConfMaxAttempts; MAX_RUN_TIME is either ConfMaxRunTime, so that a
\* lease can expire while the task executes, or DefaultMaxRunTime, so that
\* none does
InitLive ==
    /\ now = 0
    /\ settings \in [MAX_RUN_TIME : {ConfMaxRunTime, DefaultMaxRunTime},
                     MAX_ATTEMPTS : 1..ConfMaxAttempts]
    /\ \E run_at \in 0..1 :
          /\ tasks = [p \in TaskIds |->
                        IF p = 1
                        THEN NewTask("f", "[[], {}]", run_at, 0, Null, NEVER,
                                     NoTime)
                        ELSE NoRow]
          /\ sched = [p \in TaskIds |->
                        IF p = 1 THEN [NoSched EXCEPT !.t0 = run_at]
                        ELSE NoSched]
    /\ nextPk = 2
    /\ completed = <<>>
    /\ failedLog = <<>>
    /\ reschedLog = <<>>
    /\ pc = [w \in Workers |-> IF w \in LockWorkers THEN "idle" ELSE "off"]
    /\ self = [w \in Workers |-> NoInstance]
    /\ lnow = [w \in Workers |-> NoTime]
    /\ result = NoResult

NextLive ==
    \/ Advance
    \/ \E w \in LockWorkers : WorkerStep(w)

\* the clock keeps advancing and each worker keeps taking its next step
\* whenever it has one
SpecLive ==
    /\ InitLive
    /\ [][NextLive]_vars
    /\ WF_vars(Advance)
    /\ \A w \in LockWorkers : WF_vars(WorkerStep(w))

\* ------------------------------------------- one create_repetition() call

RepeatChoices == {0, 2, HOURLY}

\* a task that w1 locked at `at` and has just executed successfully
RepeatingRow(run_at, repeat, repeat_until, at) ==
    [NewTask("f", "[[], {}]", run_at, 5, "a", repeat, repeat_until)
        EXCEPT !.locked_by = "w1", !.locked_at = at]

\* w1 holds the lock on a task that was due (run_at <= now) and has run; the
\* task repeats or not, with no repeat_until or one before, at or after now
InitRepeat ==
    /\ now \in 0..MaxTime
    /\ settings = [MAX_RUN_TIME |-> ConfMaxRunTime,
                   MAX_ATTEMPTS |-> ConfMaxAttempts]
    /\ \E run_at \in 0..MaxTime, repeat \in RepeatChoices,
          repeat_until \in {NoTime} \cup 0..(MaxTime + 1) :
          LET row == RepeatingRow(run_at, repeat, repeat_until, run_at)
          IN  /\ run_at <= now
              /\ tasks = [p \in TaskIds |-> IF p = 1 THEN row ELSE NoRow]
              /\ self = [w \in Workers |->
                            IF w = "w1" THEN [pk |-> 1, row |-> row]
                            ELSE NoInstance]
              /\ lnow = [w \in Workers |-> IF w = "w1" THEN run_at ELSE NoTime]
              /\ sched = [p \in TaskIds |->
                            IF p = 1
                            THEN [NoSched EXCEPT !.t0 = run_at, !.every = repeat]
                            ELSE NoSched]
    /\ nextPk = 2
    /\ completed = <<>>
    /\ failedLog = <<>>
    /\ reschedLog = <<>>
    /\ pc = [w \in Workers |-> IF w = "w1" THEN "run" ELSE "off"]
    /\ result = NoResult

NextRepeat ==
    \/ Tick
    \/ \E w \in Workers : CreateRepetition(w)

SpecRepeat == InitRepeat /\ [][NextRepeat]_vars

\* ------------------------------------------------- the manager's queries

QueryPriorities == {1, 5}
QueryRunAts == {1, 2}
QueryQueues == {Null, "a"}
\* the queue argument of find_available: None, '', or a queue's name
QueryArgs == {Null, "", "a", "b"}

\* the rows the queried table is drawn from: unlocked, or locked by w1 at 0,
\* and one unlocked row of queue 'a' that was saved with failed_at set
QueryRowSet ==
    {[NewTask("f", "[[], {}]", run_at, priority, queue, 0, NoTime)
        EXCEPT !.locked_by = lock[1], !.locked_at = lock[2]] :
        run_at \in QueryRunAts, priority \in QueryPriorities,
        queue \in QueryQueues, lock \in {<<Null, NoTime>>, <<"w1", 0>>}}
    \cup {[NewTask("f", "[[], {}]", 1, 5, "a", 0, NoTime)
              EXCEPT !.failed_at = 1, !.attempts = 1]}

\* a table of QueryRows rows, queried at one clock reading
InitQuery ==
    /\ now \in 0..MaxTime
    /\ settings = [MAX_RUN_TIME |-> ConfMaxRunTime,
                   MAX_ATTEMPTS |-> ConfMaxAttempts]
    /\ tasks \in [1..QueryRows -> QueryRowSet]
    /\ nextPk = QueryRows + 1
    /\ completed = <<>>
    /\ failedLog = <<>>
    /\ reschedLog = <<>>
    /\ pc = [w \in Workers |-> "off"]
    /\ self = [w \in Workers |-> NoInstance]
    /\ lnow = [w \in Workers |-> NoTime]
    /\ sched = [p \in 1..QueryRows |-> NoSched]
    /\ result = NoResult

\* a caller evaluates find_available(queue), once
QueryAvailable ==
    /\ result = NoResult
    /\ \E queue \in QueryArgs : \E s \in FindAvailable(queue, now) :
          result' = [op |-> "find_available", queue |-> queue, at |-> now,
                     rows |-> s]
    /\ UNCHANGED <<now, settings, tasks, nextPk, completed, failedLog,
                   reschedLog, pc, self, lnow, sched>>

\* a caller evaluates unlocked(now), once
QueryUnlocked ==
    /\ result = NoResult
    /\ result' = [op |-> "unlocked", at |-> now, rows |-> UnlockedSet(now)]
    /\ UNCHANGED <<now, settings, tasks, nextPk, completed, failedLog,
                   reschedLog, pc, self, lnow, sched>>

NextQuery ==
    \/ QueryAvailable
    \/ QueryUnlocked

SpecQuery == InitQuery /\ [][NextQuery]_vars

\* ------------------------------------------------------------- properties

\* lock()'s conditional update reported a row for worker w
LockWon(w) == pc[w] \in {"lock_get", "run"}
\* worker w's lock() call has returned
LockDone(w) == pc[w] \in {"idle", "run"}
\* the two calls of SpecLock have returned and w alone got the task: the stored
\* lock is w's, the task w got shows it, and the other call returned None
SoleWinner(w) ==
    /\ pc[w] = "run"
    /\ tasks[1].locked_by = w
    /\ tasks[1].locked_at = lnow[w]
    /\ self[w] = [pk |-> 1, row |-> tasks[1]]
    /\ \A v \in LockWorkers \ {w} : pc[v] = "idle" /\ self[v] = NoInstance

\* C1 as stated: of two racing lock() calls on an unlocked or lease-expired
\* task exactly one succeeds, whatever the interleaving of the reads of `now`
\* and the conditional updates: never both updates succeed, and once both
\* calls have returned one worker is the sole winner.
C1_Original ==
    /\ \A a, b \in LockWorkers : a # b => ~(LockWon(a) /\ LockWon(b))
    /\ (\A w \in LockWorkers : LockDone(w)) =>
          \E w \in LockWorkers : SoleWinner(w)

\* C1, how far exclusivity does hold: both updates succeed only with readings
\* of `now` more than MAX_RUN_TIME apart; at least one call always succeeds;
\* and when one call returned None, the other is the sole winner.
C1_LockExclusive ==
    /\ \A a, b \in LockWorkers :
          (a # b /\ LockWon(a) /\ LockWon(b) /\ lnow[a] <= lnow[b]) =>
              lnow[b] - lnow[a] > settings.MAX_RUN_TIME
    /\ (\A w \in LockWorkers : LockDone(w)) =>
          /\ \E w \in LockWorkers : pc[w] = "run"
          /\ (\E w \in LockWorkers : pc[w] = "idle") =>
                \E w \in LockWorkers : SoleWinner(w)

\* C1's case: both calls read `now` before either update, at different clock
\* values, and w1 won while w2 got None
C1_Witness ==
    /\ SoleWinner("w1")
    /\ now > lnow["w1"]

\* two workers both hold a lock they took on the same task and have not
\* released: from the successful update to the save or delete that ends it
Holding(w) ==
    pc[w] \in {"lock_get", "run", "rescheduling", "deleting", "completing"}

\* C2 as stated: while worker a holds a lock it took with reading T and has
\* not released or removed the task, no other worker's lock() on the task
\* succeeds with a reading in T..T + MAX_RUN_TIME.
C2_Original ==
    \A a, b \in Workers :
        (/\ a # b
         /\ Holding(a) /\ Holding(b)
         /\ self[a].pk = self[b].pk
         /\ lnow[a] <= lnow[b]) =>
            lnow[b] > lnow[a] + settings.MAX_RUN_TIME

\* the task_failed notifications sent for pk p
FailedCount(p) ==
    Cardinality({i \in DOMAIN failedLog : failedLog[i][1] = p})

\* C3 as stated: the step of reschedule() that ends the terminal path leaves
\* the task out of the live set with a CompletedTask of the same task_hash and
\* attempts and with failed_at set; and task_failed is sent, and a
\* CompletedTask created, at most once for a task over its whole lifetime.
C3_Original ==
    [][/\ \A w \in Workers :
             (pc[w] = "deleting" /\ pc'[w] = "idle") =>
                 /\ self[w].pk \notin Live'
                 /\ \E i \in DOMAIN completed' :
                       /\ completed'[i].task_hash = self[w].row.task_hash
                       /\ completed'[i].attempts = self[w].row.attempts
                       /\ completed'[i].attempts >= settings.MAX_ATTEMPTS
                       /\ completed'[i].failed_at # NoTime
       /\ \A p \in DOMAIN tasks : FailedCount(p)' <= 1]_vars

\* C4 as stated: once reschedule() has archived and deleted a task, no step
\* puts it back in the live set, hands it to a worker from find_available(),
\* locks it, or increments its attempts.
C4_Original ==
    [][\A p \in DOMAIN tasks : sched[p].archived =>
          /\ p \notin Live'
          /\ \A w \in Workers :
                /\ (pc[w] = "idle" /\ pc'[w] = "polled") => self'[w].pk # p
                /\ (pc[w] = "lock_update" /\ pc'[w] = "lock_get") =>
                       self[w].pk # p
                /\ (pc[w] = "run" /\ pc'[w] = "rescheduling") =>
                       self[w].pk # p]_vars

\* C5 as stated: no step lowers the stored attempts of a live task.
C5_Original ==
    [][\A p \in Live \cap Live' : tasks'[p].attempts >= tasks[p].attempts]_vars

\* the backoff the specification tabulates for attempts 1..4
ExpectedBackoff == <<6, 21, 86, 261>>

\* C6: the step of reschedule() that ends the non-terminal path, with n the
\* incremented attempts (n < MAX_ATTEMPTS), leaves the task live with
\* attempts n, run_at = now + n^4 + 5 (6, 21, 86, 261 for n = 1..4) and
\* locked_by and locked_at cleared, so that find_available() evaluated at any
\* time before that run_at does not return it; and the step before it raised
\* the stored attempts by one.
C6_Backoff ==
    [][\A w \in Workers :
          /\ (pc[w] = "run" /\ pc'[w] = "rescheduling") =>
                /\ self'[w].row.attempts = self[w].row.attempts + 1
                /\ tasks'[self[w].pk].attempts = self[w].row.attempts + 1
          /\ (/\ pc[w] = "rescheduling" /\ pc'[w] = "idle"
              /\ self[w].row.attempts < settings.MAX_ATTEMPTS) =>
                LET p == self[w].pk
                    n == self[w].row.attempts
                    due == now + (IF n \in DOMAIN ExpectedBackoff
                                  THEN ExpectedBackoff[n]
                                  ELSE n * n * n * n + 5)
                IN  /\ p \in Live'
                    /\ tasks'[p].attempts = n
                    /\ tasks'[p].run_at = due
                    /\ tasks'[p].locked_by = Null
                    /\ tasks'[p].locked_at = NoTime
                    /\ \A t \in 0..(due - 1) : \A queue \in QueryArgs :
                          \A s \in FindAvailable(queue, t)' :
                              \A i \in DOMAIN s : s[i] # p]_vars

\* C6's case: the fourth failure of a task has just been rescheduled
C6_Witness ==
    /\ reschedLog = <<1>>
    /\ 1 \in Live
    /\ tasks[1].attempts = 4
    /\ tasks[1].run_at = now + 261
    /\ tasks[1].locked_by = Null
    /\ pc["w1"] = "idle"

\* C7: unlocked(now) holds exactly the rows whose locked_by is NULL or whose
\* locked_at is strictly earlier than now - MAX_RUN_TIME: a row locked at T0
\* is out for T0 <= now <= T0 + MAX_RUN_TIME and in for now > T0 + MAX_RUN_TIME.
C7_LeaseExpiry ==
    result.op = "unlocked" =>
        \A p \in Live :
            LET row == tasks[p]
                T0 == row.locked_at
            IN  /\ row.locked_by = Null => p \in result.rows
                /\ (row.locked_by # Null /\ T0 <= result.at
                      /\ result.at <= T0 + settings.MAX_RUN_TIME) =>
                        p \notin result.rows
                /\ (row.locked_by # Null
                      /\ result.at > T0 + settings.MAX_RUN_TIME) =>
                        p \in result.rows

\* C7's case: unlocked() asked one second after a lease ran out returns the
\* row, next to a row that was never locked
C7_Witness ==
    /\ result.op = "unlocked"
    /\ \E p, q \in Live :
          /\ tasks[p].locked_by # Null
          /\ result.at = tasks[p].locked_at + settings.MAX_RUN_TIME + 1
          /\ p \in result.rows
          /\ tasks[q].locked_by = Null
          /\ q \in result.rows

\* the rows of a query result, as a set
ResultSet == {result.rows[i] : i \in DOMAIN result.rows}

\* C8: find_available(queue) returns, each once, exactly the live rows that
\* are unlocked or lease-expired at now, with run_at <= now and failed_at NULL,
\* of the given queue when a queue name is given (None and '' give all
\* queues); no row with an unexpired lease or a later run_at is returned.
C8_FindAvailable ==
    result.op = "find_available" =>
        /\ ResultSet =
              {p \in Live :
                  /\ \/ tasks[p].locked_by = Null
                     \/ tasks[p].locked_at + settings.MAX_RUN_TIME < result.at
                  /\ tasks[p].run_at <= result.at
                  /\ tasks[p].failed_at = NoTime
                  /\ result.queue \in {"a", "b"} =>
                        tasks[p].queue = result.queue}
        /\ Len(result.rows) = Cardinality(ResultSet)
        /\ \A p \in ResultSet :
              /\ tasks[p].run_at <= result.at
              /\ ~(/\ tasks[p].locked_by # Null
                   /\ result.at <= tasks[p].locked_at + settings.MAX_RUN_TIME)

\* C8's case: a query for queue 'a' returns one row and leaves out a row with
\* an unexpired lease and a row that is due and unlocked but has failed_at set
C8_Witness ==
    /\ result.op = "find_available"
    /\ result.queue = "a"
    /\ Len(result.rows) = 1
    /\ \E p, q, r \in Live :
          /\ tasks[p].queue = "a" /\ p \in ResultSet
          /\ tasks[q].queue = "a" /\ q \notin ResultSet
          /\ tasks[q].locked_by # Null /\ tasks[q].run_at <= result.at
          /\ tasks[r].queue = "a" /\ r \notin ResultSet
          /\ tasks[r].locked_by = Null /\ tasks[r].run_at <= result.at
          /\ tasks[r].failed_at # NoTime

\* C9: in the sequence find_available() returns, a row before another has a
\* higher priority, or the same priority and a run_at not later.
C9_Ordering ==
    result.op = "find_available" =>
        \A i, j \in DOMAIN result.rows : i < j =>
            LET a == tasks[result.rows[i]]
                b == tasks[result.rows[j]]
            IN  \/ a.priority > b.priority
                \/ a.priority = b.priority /\ a.run_at <= b.run_at

\* C9's case: priorities 5, 1, 5 with run_at 2, 1, 1 come back as 5/1, 5/2, 1/1
C9_Witness ==
    /\ result.op = "find_available"
    /\ tasks[1].priority = 5 /\ tasks[1].run_at = 2
    /\ tasks[2].priority = 1 /\ tasks[2].run_at = 1
    /\ tasks[3].priority = 5 /\ tasks[3].run_at = 1
    /\ result.rows = <<3, 1, 2>>

\* C10 as stated: a repetition created from a task that failed at least once
\* before it succeeded has run_at = t0 + repeat, t0 being the run_at its parent
\* was scheduled with.
C10_Original ==
    \A q \in DOMAIN sched :
        (sched[q].parent # 0 /\ sched[q].after >= 1) =>
            sched[q].t0 = sched[sched[q].parent].t0 + sched[q].every

\* create_repetition() of worker w returns in this step (None, a task, or by
\* raising)
RepetitionReturns(w) == pc[w] = "run" /\ pc'[w] \in {"completing", "idle"}

\* the rows this step adds to the live set
Added == Live' \ Live

C12_Original ==
    [][\A w \in Workers :
          (/\ RepetitionReturns(w)
           /\ self[w].row.repeat # 0
           /\ \/ self[w].row.repeat_until = NoTime
              \/ self[w].row.repeat_until > now) =>
              /\ Cardinality(Added) = 1
              /\ \A p \in Added :
                    /\ tasks'[p].task_name = self[w].row.task_name
                    /\ tasks'[p].task_params = self[w].row.task_params
                    /\ tasks'[p].task_hash = self[w].row.task_hash
                    /\ tasks'[p].priority = self[w].row.priority
                    /\ tasks'[p].queue = self[w].row.queue
                    /\ tasks'[p].repeat = self[w].row.repeat
                    /\ tasks'[p].repeat_until = self[w].row.repeat_until
                    /\ tasks'[p].attempts = 0
                    /\ tasks'[p].locked_by = Null
                    /\ tasks'[p].locked_at = NoTime
              /\ tasks'[self[w].pk] = tasks[self[w].pk]]_vars

\* C12, how far it does hold: with repeat > 0 and repeat_until set and later
\* than the current time, exactly one task is added, a copy with attempts 0
\* and no lock, and the original row is unchanged.
C12_WhenUntilSet ==
    [][\A w \in Workers :
          (/\ RepetitionReturns(w)
           /\ self[w].row.repeat > 0
           /\ self[w].row.repeat_until # NoTime
           /\ self[w].row.repeat_until > now) =>
              /\ Cardinality(Added) = 1
              /\ \A p \in Added :
                    /\ tasks'[p] =
                          [self[w].row EXCEPT
                              !.run_at = self[w].row.run_at + self[w].row.repeat,
                              !.attempts = 0, !.last_error = "",
                              !.failed_at = NoTime,
                              !.locked_by = Null, !.locked_at = NoTime]
              /\ tasks'[self[w].pk] = tasks[self[w].pk]]_vars

\* C13: create_repetition() adds no task and changes none when repeat is 0, or
\* when repeat_until is set and <= the current time; and when the task repeats
\* and the current time is before repeat_until it adds one, also when that
\* repetition's own run_at is at or after repeat_until.
C13_Cutoff ==
    [][\A w \in Workers : RepetitionReturns(w) =>
          LET row == self[w].row
          IN  /\ (\/ row.repeat = 0
                  \/ row.repeat_until # NoTime /\ row.repeat_until <= now) =>
                    /\ tasks' = tasks
                    /\ pc'[w] = "completing"
              /\ (/\ row.repeat > 0
                  /\ row.repeat_until # NoTime /\ now < row.repeat_until) =>
                    /\ Cardinality(Added) = 1
                    /\ pc'[w] = "completing"]_vars

\* C13's case: at 1, before repeat_until = 2, a repetition due at 3600, long
\* after repeat_until, has been created
C13_Witness ==
    /\ pc["w1"] = "completing"
    /\ now = 1
    /\ self["w1"].row.repeat_until = 2
    /\ 2 \in Live
    /\ tasks[2].run_at >= tasks[2].repeat_until

\* C14 as stated: between the steps of one reschedule() call the store never
\* shows the task with its attempts incremented while its run_at is not moved
\* and its lock not cleared, nor live with attempts >= MAX_ATTEMPTS and no
\* CompletedTask; a call that stops after its first write leaves no change.
C14_Original ==
    \A w \in Workers :
        (pc[w] = "rescheduling" /\ self[w].pk \in Live) =>
            LET row == tasks[self[w].pk]
            IN  ~(/\ row.attempts = self[w].row.attempts
                  /\ row.last_error = "Traceback"
                  /\ row.locked_by = w
                  /\ row.run_at = sched[self[w].pk].t0
                  /\ completed = <<>>)

\* C15 as stated: when the task_rescheduled receiver fails, reschedule() has
\* still persisted run_at = now + backoff and the cleared lock; when the
\* task_failed receiver fails, reschedule() has still deleted the live task
\* whose CompletedTask it created.
C15_Original ==
    [][\A w \in Workers :
          (pc[w] = "rescheduling" /\ pc'[w] = "raised") =>
              LET p == self[w].pk
              IN  IF HasReachedMaxAttempts(self[w].row)
                  THEN p \notin Live'
                  ELSE /\ p \in Live'
                       /\ tasks'[p].run_at = now + Backoff(self[w].row.attempts)
                       /\ tasks'[p].locked_by = Null
                       /\ tasks'[p].locked_at = NoTime]_vars

\* the lock the dead worker w3 left is still the stored one
DeadLock == 1 \in Live /\ tasks[1].locked_by = "w3"

\* the task is in every sequence find_available() may return at the clock's
\* present value
Returned == \A s \in FindAvailable(Null, now) : \E i \in DOMAIN s : s[i] = 1

\* the stored lock is the dead worker's, its lease has run out and the task is
\* due
Abandoned ==
    /\ DeadLock
    /\ now > tasks[1].locked_at + settings.MAX_RUN_TIME
    /\ tasks[1].run_at <= now

\* C19: while the lock of the dead worker is the stored one, taken at T, every
\* find_available() at now > T + MAX_RUN_TIME (run_at <= now) returns the task,
\* and every lock() by another worker that read such a now succeeds and stores
\* that worker's lock.
C19_CrashRecovery ==
    [][/\ Abandoned => Returned
       /\ Abandoned' => Returned'
       /\ DeadLock =>
             \A w \in LockWorkers :
                 (/\ pc[w] = "lock_update" /\ pc'[w] # "lock_update"
                  /\ lnow[w] > tasks[1].locked_at + settings.MAX_RUN_TIME) =>
                     /\ pc'[w] = "lock_get"
                     /\ tasks'[1].locked_by = w
                     /\ tasks'[1].locked_at = lnow[w]]_vars

\* C19's case: w3 locked at 0 and died; at 3 > 0 + MAX_RUN_TIME w1 got the task
\* from find_available(), locked it and was returned it
C19_Witness ==
    /\ pc["w1"] = "run"
    /\ settings.MAX_RUN_TIME = ConfMaxRunTime
    /\ lnow["w1"] = ConfMaxRunTime + 1
    /\ tasks[1].locked_by = "w1"
    /\ tasks[1].locked_at = ConfMaxRunTime + 1
    /\ self["w1"] = [pk |-> 1, row |-> tasks[1]]

\* the live tasks that were scheduled with this name and these keyword
\* arguments, in any keyword order
ScheduledAs(name, kwargs) ==
    {p \in Live : sched[p].name = name /\ sched[p].kwargs = kwargs}

\* C17: tasks scheduled with the same name and keyword arguments carry the
\* same task_hash whatever the keyword order, and others a different one;
\* get_task returns exactly the live tasks scheduled with its arguments;
\* drop_task removes exactly those and changes no other row, so that none is
\* left to find or to drop again.
C17_Dedup ==
    [][/\ \A p, q \in Live' :
             (sched'[p].name = sched'[q].name
                 /\ sched'[p].kwargs = sched'[q].kwargs)
             <=> tasks'[p].task_hash = tasks'[q].task_hash
       /\ (result' # result /\ result'.op = "get_task") =>
             result'.rows = ScheduledAs(result'.name, result'.kwargs)
       /\ (result' # result /\ result'.op = "drop_task") =>
             /\ result'.rows = ScheduledAs(result'.name, result'.kwargs)
             /\ Live' = Live \ result'.rows
             /\ \A p \in Live' : tasks'[p] = tasks[p]
             /\ \A p \in Live' :
                   ~(sched'[p].name = result'.name
                       /\ sched'[p].kwargs = result'.kwargs)]_vars

\* C17's case: f(a=1, b=1) was scheduled twice, in both keyword orders, and one
\* drop_task has removed both rows
C17_Witness ==
    /\ result.op = "drop_task"
    /\ result.rows = {1, 2}
    /\ result.kwargs = {<<"a", 1>>, <<"b", 1>>}
    /\ Live = {}

\* C16: no row of the live table has failed_at set.
C16_NoFailedLive == \A p \in Live : tasks[p].failed_at = NoTime

\* C16's case: reschedule() has set failed_at on the instance and archived it
\* with failed_at set, and the row, not yet deleted, has none
C16_Witness ==
    \E w \in Workers :
        /\ pc[w] = "deleting"
        /\ self[w].row.failed_at # NoTime
        /\ self[w].pk \in Live
        /\ tasks[self[w].pk].failed_at = NoTime
        /\ \E i \in DOMAIN completed : completed[i].failed_at # NoTime

\* C20 as stated: a task that drop_task deleted is not put back into the live
\* set by any later step of a worker that was executing it.
C20_Original ==
    [][result.op = "drop_task" =>
          \A p \in result.rows : p \notin Live']_vars

\* the executions that failed so far: each reschedule() call that got through
\* ended in task_rescheduled or task_failed
Failures == Len(reschedLog) + Len(failedLog)

\* the task has been archived as a failed CompletedTask and its row is out of
\* the live table
Removed ==
    /\ 1 \notin Live
    /\ sched[1].archived
    /\ \E i \in DOMAIN completed : completed[i].failed_at # NoTime

\* no worker is polling, locking, executing or rescheduling
AllIdle == \A w \in LockWorkers : pc[w] = "idle"

\* no lease expires while the task executes
NoLeaseExpires == settings.MAX_RUN_TIME = DefaultMaxRunTime

====
